---------------------------- MODULE Spec2Model ----------------------------
(***************************************************************************)
(* A model of the logistics optimisation coordinator (src/logistic.py)     *)
(* and of the dashboard thread that publishes its data (src/demo.py).      *)
(*                                                                         *)
(* Time is wall-clock time in whole seconds since the construction of the  *)
(* LogisticsOptimizer.  timedelta.seconds is modelled as Python computes   *)
(* it: the seconds component of the normalised difference, 0..86399, the   *)
(* days being a separate field that the code never reads.                  *)
(***************************************************************************)
EXTENDS Integers, Sequences, FiniteSets, TLC

(***************************************************************************)
(* Program constants.                                                      *)
(***************************************************************************)
\* _hourly_trigger: (current - last_optimization).seconds >= 3600
Threshold == 3600
\* timedelta.seconds is the remainder modulo one day
SecondsPerDay == 86400
\* _generate_demands: timedelta(minutes=55)
WindowSecs == 3300
\* _create_demand: timedelta(hours=1, minutes=15) and timedelta(hours=4)
WindowStartSecs == 4500
WindowEndSecs == 14400
\* publish pass: (current_time - last_update).seconds >= 1
PublishEverySecs == 1

(***************************************************************************)
(* Bounds of the model.                                                    *)
(***************************************************************************)
\* ticks of the coordinator loop that are explored
MaxTicks == 2
\* longest list of pending orders the order provider returns
MaxPending == 2
\* longest list of production batches the factory provider returns
MaxBatches == 2
\* optimization_thread instances that toggle_optimization may start
MaxThreads == 2
\* seconds of dashboard time that are explored
MaxDemoClock == 2

(***************************************************************************)
(* Input domains.                                                          *)
(***************************************************************************)
\* seconds that pass during time.sleep(1) and the rest of a tick: the
\* regular second, one second less than the hour, the hour, and a stall of
\* a day and a second
Deltas == {1, 3599, 3600, 86401}
\* seconds that pass between one reading of the clock in a tick and the
\* next: the trigger's (line 138), the composition's (line 170) and the one
\* that resets last_optimization (line 149)
Lags == {0, 1}
\* DataStream.get_event: the four event types
EventTypes == {"accident", "traffic_jam", "weather_alert", "order_change"}
\* two of the locations get_event may sample
Locations == {"31.25,121.50", "31.20,121.40"}
FactoryLocation == "31.2304,121.4737"
\* ages of a production batch, in seconds before the composer's clock
\* reading: a minute in the future, fresh, 50 minutes, one second less than
\* 55 minutes, exactly 55 minutes, 60 minutes
Ages == {-60, 0, 3000, 3299, 3300, 3600}
\* clock readings at which the composer is called
GdNows == {0, 7200}
\* the ages the coordinator's factory provider reports: fresh and stale
CoordAges == {0, 3600}
\* age, at the clock reading of line 170, of a batch the factory reports for
\* the first time: it is stamped datetime.now() at line 117, in the second
\* of that reading or in the next one
CycleAges == {-1, 0}
\* f'产品{chr(65+i)}' for i in range(2)
FactoryTypes == <<"A", "B">>
ProductTypes == {"A", "B", "C"}
\* FactorySystem draws each amount from 100..500; one amount per product
AmountOf(type) == CASE type = "A" -> 100 [] type = "B" -> 300 [] OTHER -> 500
OrderIds == {"order1", "order2"}

Threads == 1..MaxThreads
Nobody == "nobody"
Reader == "reader"
\* a session_state key that was never assigned: .get(key, []) gives []
Absent == "absent"
\* the reads of one script run, in the order display_dashboard makes them
Fields == {"map", "production", "events", "vehicles"}
\* the attributes DataStream.__init__ assigns
DataStreamAttrs == {"orders", "vehicles", "traffic", "weather", "factory"}

NotSampled == [kind |-> "not_sampled"]
NoEvent == [kind |-> "none"]
Events == [kind : {"event"}, type : EventTypes, location : Locations]

VARIABLES
    \* ---- src/logistic.py: LogisticsOptimizer.realtime_optimization ----
    clock,              \* the wall clock, datetime.now()
    last_optimization,  \* self.last_optimization
    current_solution,   \* self.current_solution.routes
    pc,                 \* position of the coordinator in its loop
    tick_sched,         \* value of _hourly_trigger() in the tick in progress
    tick_event,         \* outcome of has_event()/get_event() in this tick
    update_failed,      \* _update_data caught an exception in this tick
    building,           \* the list the comprehension of line 167 is building
    n_demands,          \* len(updated_demands) of the reoptimization
    installs,           \* assignments to current_solution in this tick
    prev_opt,           \* the value last_optimization had before its last reset
    sol_for,            \* what the installed Solution was built for
    seen,               \* routes a concurrent reader last read
    seen_for,           \* sol_for at that read
    ticks,              \* completed ticks
    dispatched,         \* route count _dispatch_commands last reported (0: none)
    \* ---- _generate_demands as a function of its inputs ----
    gd_now, gd_pending, gd_production, gd_out, gd_pc,
    gd_log,             \* the batches composed so far: type, timestamp, when
    \* ---- src/demo.py: st.session_state and the threads over it ----
    running,            \* st.session_state.running
    last_update,        \* st.session_state.last_update
    ss_vehicles,        \* st.session_state.vehicles: the pass that wrote it
    ss_production,      \* st.session_state.production
    ss_events,          \* st.session_state.events
    tpc,                \* position of each optimization_thread
    lock_owner,         \* who is inside `with data_stream.lock`
    t_failed,           \* the threads whose handler has reported an error
    tg_pc,              \* position of a call of toggle_optimization
    r_pc,               \* position of the script run that draws the dashboard
    r_obs,              \* what the display functions of that run read
    d_clock             \* the wall clock of the dashboard process

coordVars == <<clock, last_optimization, current_solution, pc, tick_sched,
               tick_event, update_failed, building, n_demands, installs,
               prev_opt, sol_for, seen, seen_for, ticks, dispatched>>
gdVars == <<gd_now, gd_pending, gd_production, gd_out, gd_pc, gd_log>>
demoVars == <<running, last_update, ss_vehicles, ss_production, ss_events,
              tpc, lock_owner, t_failed, tg_pc, r_pc, r_obs, d_clock>>
vars == <<coordVars, gdVars, demoVars>>

(***************************************************************************)
(* Pure functions of src/logistic.py.                                      *)
(***************************************************************************)
\* (a - b).seconds of two datetimes
TimedeltaSeconds(a, b) == (a - b) % SecondsPerDay

\* _hourly_trigger
HourlyTriggerAnyElapsed(current, last) == TimedeltaSeconds(current, last) >= 1
HourlyTrigger(current, last) == TimedeltaSeconds(current, last) >= Threshold

\* the filter of _generate_demands: p.timestamp > current_time - 55 minutes
InWindowInclusive(timestamp, current_time) == timestamp >= current_time - WindowSecs
InWindow(timestamp, current_time) == timestamp > current_time - WindowSecs

\* _create_demand
CreateDemand(product, base_time) ==
    [type |-> product.type,
     quantity |-> product.amount,
     location |-> FactoryLocation,
     time_window |-> <<base_time + WindowStartSecs, base_time + WindowEndSecs>>]

\* the inner comprehension of _generate_demands, in provider order
RECURSIVE Synthesized(_, _)
Synthesized(production, current_time) ==
    IF production = <<>> THEN <<>>
    ELSE LET p == Head(production)
             rest == Synthesized(Tail(production), current_time)
         IN IF InWindow(p.timestamp, current_time)
            THEN <<CreateDemand(p, current_time)>> \o rest
            ELSE rest

\* _generate_demands
GenerateDemandsSynthFirst(pending, production, current_time) ==
    Synthesized(production, current_time) \o pending
GenerateDemands(pending, production, current_time) ==
    pending \o Synthesized(production, current_time)

\* f"路线{i}" and f"调整路线@{event['location']}"
Route(i) == [kind |-> "route", index |-> i]
AdjustRoute(location) == [kind |-> "adjust", at |-> location]

\* [f"路线{i}" for i in range(len(updated_demands)//3 + 1)]
RouteCountFloor(n) == n \div 3
RouteCount(n) == (n \div 3) + 1
ScheduledRoutes(n) == [i \in 1..RouteCount(n) |-> Route(i - 1)]

\* the comprehension has produced its last element
ComprehensionDoneEarly(built, n) == TRUE
ComprehensionDone(built, n) == Len(built) = RouteCount(n)

\* Solution([f"调整路线@{event['location']}"])
EventSolutionAppended(prior, event) == Append(prior, AdjustRoute(event.location))
EventSolution(prior, event) == <<AdjustRoute(event.location)>>

(***************************************************************************)
(* Provider outputs.                                                       *)
(***************************************************************************)
SeqsUpTo(S, n) == UNION {[1..k -> S] : k \in 0..n}
Injective(s) == \A i, j \in DOMAIN s : s[i] = s[j] => i = j

\* OrderSystem.get_pending: DeliveryDemand objects
Order(id) == [type |-> id, quantity |-> 200, location |-> "31.235,121.480",
              time_window |-> <<3600, 10800>>]
PendingLists == {[i \in DOMAIN s |-> Order(s[i])] : s \in SeqsUpTo(OrderIds, MaxPending)}

\* FactorySystem.get_production: FactoryProduction objects, one per product,
\* each `age` seconds old at `now`
ProductionLists(now, ages) ==
    {[i \in DOMAIN ts |-> [type |-> ts[i], amount |-> AmountOf(ts[i]),
                           timestamp |-> now - as[i]]] :
        <<ts, as>> \in {q \in SeqsUpTo(ProductTypes, MaxBatches) \X SeqsUpTo(ages, MaxBatches) :
                           Len(q[1]) = Len(q[2]) /\ Injective(q[1])}}

(***************************************************************************)
(* The coordinator: LogisticsOptimizer.__init__ and realtime_optimization. *)
(***************************************************************************)
Running == {"update", "trigger", "hourly", "demands", "build", "set_last",
            "event", "dispatch", "sleep"}

\* __init__: last_optimization = now, current_solution = Solution([])
CoordInit ==
    /\ clock = 0
    /\ last_optimization = 0
    /\ current_solution = <<>>
    /\ pc = "update"
    /\ tick_sched = FALSE
    /\ tick_event = NotSampled
    /\ update_failed = FALSE
    /\ building = <<>>
    /\ n_demands = 0
    /\ installs = 0
    /\ prev_opt = 0
    /\ sol_for = [kind |-> "init"]
    /\ seen = <<>>
    /\ seen_for = [kind |-> "init"]
    /\ ticks = 0
    /\ dispatched = 0

\* the routes a complete Solution built for `what` holds
ExpectedRoutes(what) ==
    CASE what.kind = "init" -> <<>>
      [] what.kind = "scheduled" -> ScheduledRoutes(what.n)
      [] what.kind = "event" -> <<AdjustRoute(what.location)>>

\* line 144, _update_data: preprocess() returns or raises; an Exception is
\* caught and printed, and the tick goes on
UpdateDataUncaught ==
    /\ pc = "update"
    /\ \E raised \in BOOLEAN :
          /\ update_failed' = raised
          /\ pc' = IF raised THEN "crashed" ELSE "trigger"
    /\ UNCHANGED <<clock, last_optimization, current_solution, tick_sched,
                   tick_event, building, n_demands, installs, prev_opt,
                   sol_for, seen, seen_for, ticks, dispatched, gdVars, demoVars>>
UpdateData ==
    /\ pc = "update"
    /\ \E raised \in BOOLEAN : update_failed' = raised
    /\ pc' = "trigger"
    /\ UNCHANGED <<clock, last_optimization, current_solution, tick_sched,
                   tick_event, building, n_demands, installs, prev_opt,
                   sol_for, seen, seen_for, ticks, dispatched, gdVars, demoVars>>

\* line 146: if self._hourly_trigger()
Trigger ==
    /\ pc = "trigger"
    /\ tick_sched' = HourlyTrigger(clock, last_optimization)
    /\ pc' = IF tick_sched' THEN "hourly" ELSE "event"
    /\ UNCHANGED <<clock, last_optimization, current_solution, tick_event,
                   update_failed, building, n_demands, installs, prev_opt,
                   sol_for, seen, seen_for, ticks, dispatched, gdVars, demoVars>>

\* line 163: get_hourly_production() returns (its result is only printed) or
\* raises; nothing in realtime_optimization catches an Exception
HourlyProduction ==
    /\ pc = "hourly"
    /\ \E raised \in BOOLEAN : pc' = IF raised THEN "crashed" ELSE "demands"
    /\ UNCHANGED <<clock, last_optimization, current_solution, tick_sched,
                   tick_event, update_failed, building, n_demands, installs,
                   prev_opt, sol_for, seen, seen_for, ticks, dispatched, gdVars, demoVars>>

\* line 165: updated_demands = self._generate_demands(), or a provider raises
HourlyDemands ==
    /\ pc = "demands"
    /\ \/ \E pending \in PendingLists, production \in ProductionLists(clock, CoordAges) :
            /\ n_demands' = Len(GenerateDemands(pending, production, clock))
            /\ building' = <<>>
            /\ pc' = "build"
       \/ /\ pc' = "crashed"
          /\ UNCHANGED <<n_demands, building>>
    /\ UNCHANGED <<clock, last_optimization, current_solution, tick_sched,
                   tick_event, update_failed, installs, prev_opt, sol_for,
                   seen, seen_for, ticks, dispatched, gdVars, demoVars>>

\* line 167, the comprehension: one more f"路线{i}" is appended to the new list
BuildRoute ==
    /\ pc = "build"
    /\ Len(building) < RouteCount(n_demands)
    /\ building' = Append(building, Route(Len(building)))
    /\ UNCHANGED <<clock, last_optimization, current_solution, pc, tick_sched,
                   tick_event, update_failed, n_demands, installs, prev_opt,
                   sol_for, seen, seen_for, ticks, dispatched, gdVars, demoVars>>

\* line 167, the assignment: self.current_solution = Solution(<the list>)
InstallScheduled ==
    /\ pc = "build"
    /\ ComprehensionDone(building, n_demands)
    /\ current_solution' = building
    /\ sol_for' = [kind |-> "scheduled", n |-> n_demands]
    /\ installs' = installs + 1
    /\ pc' = "set_last"
    /\ UNCHANGED <<clock, last_optimization, tick_sched, tick_event,
                   update_failed, building, n_demands, prev_opt, seen,
                   seen_for, ticks, dispatched, gdVars, demoVars>>

\* line 149: self.last_optimization = datetime.now(self.tz)
SetLastElif ==
    /\ pc = "set_last"
    /\ \E lag \in Lags : clock' = clock + lag
    /\ prev_opt' = last_optimization
    /\ last_optimization' = clock'
    /\ pc' = "dispatch"
    /\ UNCHANGED <<current_solution, tick_sched, tick_event, update_failed,
                   building, n_demands, installs, sol_for, seen, seen_for,
                   ticks, dispatched, gdVars, demoVars>>
SetLast ==
    /\ pc = "set_last"
    /\ \E lag \in Lags : clock' = clock + lag
    /\ prev_opt' = last_optimization
    /\ last_optimization' = clock'
    /\ pc' = "event"
    /\ UNCHANGED <<current_solution, tick_sched, tick_event, update_failed,
                   building, n_demands, installs, sol_for, seen, seen_for,
                   ticks, dispatched, gdVars, demoVars>>

\* lines 151-154: if has_event(): event = get_event(); install the adjusted
\* Solution.  has_event or get_event may raise, and nothing catches it.
EventStepResetsLast ==
    /\ pc = "event"
    /\ \/ /\ tick_event' = NoEvent
          /\ pc' = "dispatch"
          /\ UNCHANGED <<current_solution, sol_for, installs, last_optimization>>
       \/ \E event \in Events :
            /\ tick_event' = event
            /\ current_solution' = EventSolution(current_solution, event)
            /\ sol_for' = [kind |-> "event", location |-> event.location]
            /\ installs' = installs + 1
            /\ last_optimization' = clock
            /\ pc' = "dispatch"
       \/ /\ pc' = "crashed"
          /\ UNCHANGED <<tick_event, current_solution, sol_for, installs,
                         last_optimization>>
    /\ UNCHANGED <<clock, tick_sched, update_failed, building,
                   n_demands, prev_opt, seen, seen_for, ticks, dispatched, gdVars, demoVars>>
EventStep ==
    /\ pc = "event"
    /\ \/ /\ tick_event' = NoEvent
          /\ pc' = "dispatch"
          /\ UNCHANGED <<current_solution, sol_for, installs>>
       \/ \E event \in Events :
            /\ tick_event' = event
            /\ current_solution' = EventSolution(current_solution, event)
            /\ sol_for' = [kind |-> "event", location |-> event.location]
            /\ installs' = installs + 1
            /\ pc' = "dispatch"
       \/ /\ pc' = "crashed"
          /\ UNCHANGED <<tick_event, current_solution, sol_for, installs>>
    /\ UNCHANGED <<clock, last_optimization, tick_sched, update_failed, building,
                   n_demands, prev_opt, seen, seen_for, ticks, dispatched, gdVars, demoVars>>

\* line 156, _dispatch_commands: reports the route count of a non-empty Solution
Dispatch ==
    /\ pc = "dispatch"
    /\ dispatched' = IF current_solution # <<>> THEN Len(current_solution) ELSE 0
    /\ pc' = "sleep"
    /\ UNCHANGED <<clock, last_optimization, current_solution, tick_sched,
                   tick_event, update_failed, building, n_demands, installs,
                   prev_opt, sol_for, seen, seen_for, ticks, gdVars, demoVars>>

\* line 157: time.sleep(1), after which the next iteration starts
Sleep ==
    /\ pc = "sleep"
    /\ ticks < MaxTicks
    /\ \E d \in Deltas : clock' = clock + d
    /\ ticks' = ticks + 1
    /\ tick_sched' = FALSE
    /\ tick_event' = NotSampled
    /\ update_failed' = FALSE
    /\ installs' = 0
    /\ pc' = "update"
    /\ UNCHANGED <<last_optimization, current_solution, building, n_demands,
                   prev_opt, sol_for, seen, seen_for, dispatched, gdVars, demoVars>>

\* line 159: a KeyboardInterrupt raised anywhere in the loop ends it
Interrupt ==
    /\ pc \in Running
    /\ pc' = "terminated"
    /\ UNCHANGED <<clock, last_optimization, current_solution, tick_sched,
                   tick_event, update_failed, building, n_demands, installs,
                   prev_opt, sol_for, seen, seen_for, ticks, dispatched, gdVars, demoVars>>

\* a monitor thread reads optimizer.current_solution.routes
ReadSolution ==
    /\ seen' = current_solution
    /\ seen_for' = sol_for
    /\ seen' # seen \/ seen_for' # seen_for
    /\ UNCHANGED <<clock, last_optimization, current_solution, pc, tick_sched,
                   tick_event, update_failed, building, n_demands, installs,
                   prev_opt, sol_for, ticks, dispatched, gdVars, demoVars>>

GdIdle ==
    /\ gd_now = 0 /\ gd_pending = <<>> /\ gd_production = <<>>
    /\ gd_out = <<>> /\ gd_pc = "idle" /\ gd_log = {}

\* init_system: running = False, last_update = now; no vehicles, production
\* or events key exists yet
DemoInit ==
    /\ running = FALSE
    /\ last_update = 0
    /\ ss_vehicles = Absent
    /\ ss_production = Absent
    /\ ss_events = Absent
    /\ tpc = [t \in Threads |-> "unstarted"]
    /\ lock_owner = Nobody
    /\ t_failed = {}
    /\ tg_pc = "idle"
    /\ r_pc = "idle"
    /\ r_obs = [f \in Fields |-> Absent]
    /\ d_clock = 0

Init == CoordInit /\ GdIdle /\ DemoInit

Next ==
    \/ UpdateData
    \/ Trigger
    \/ HourlyProduction
    \/ HourlyDemands
    \/ BuildRoute
    \/ InstallScheduled
    \/ SetLast
    \/ EventStep
    \/ Dispatch
    \/ Sleep
    \/ Interrupt
    \/ ReadSolution

Spec == Init /\ [][Next]_vars

(***************************************************************************)
(* _generate_demands applied to every input of the bounded domains.        *)
(***************************************************************************)
GdInit ==
    /\ gd_now \in GdNows
    /\ gd_pending \in PendingLists
    /\ gd_production \in ProductionLists(gd_now, Ages)
    /\ gd_out = <<>>
    /\ gd_pc = "call"
    /\ gd_log = {}

\* lines 169-178: the call of _generate_demands at clock reading gd_now
Compose ==
    /\ gd_pc = "call"
    /\ gd_out' = GenerateDemands(gd_pending, gd_production, gd_now)
    /\ gd_pc' = "done"
    /\ UNCHANGED <<gd_now, gd_pending, gd_production, gd_log, coordVars, demoVars>>

InitDemands == CoordInit /\ DemoInit /\ GdInit

NextDemands == Compose

SpecDemands == InitDemands /\ [][NextDemands]_vars

(***************************************************************************)
(* The coordinator's loop with every composition recorded: which batches   *)
(* each call of _generate_demands turned into demands, and when.           *)
(***************************************************************************)
\* the batches of `production` that pass the filter of line 176, each of
\* which _create_demand is called for
ComposedBatches(production, current_time) ==
    {production[i] : i \in {k \in DOMAIN production :
                                InWindow(production[k].timestamp, current_time)}}

\* FactorySystem.get_production: one batch per product of the factory, each
\* stamped with the clock as it is built, so no batch is stamped earlier
\* than the one before it
FactoryReports(now) ==
    LET fresh == {now - a : a \in CycleAges}
    IN {[i \in DOMAIN FactoryTypes |->
            [type |-> FactoryTypes[i], amount |-> AmountOf(FactoryTypes[i]),
             timestamp |-> st[i]]] :
          st \in {f \in [DOMAIN FactoryTypes -> fresh] :
                     \A i, j \in DOMAIN FactoryTypes : i <= j => f[i] <= f[j]}}

\* line 165 with _generate_demands (169-178): current_time is a new reading
\* of the clock (line 170), at or after the one the trigger made (line 138)
HourlyDemandsLogged ==
    /\ pc = "demands"
    /\ \/ \E lag \in Lags, pending \in PendingLists :
            \E production \in FactoryReports(clock + lag) :
                LET current_time == clock + lag
                    out == GenerateDemands(pending, production, current_time)
                IN /\ clock' = current_time
                   /\ n_demands' = Len(out)
                   /\ building' = <<>>
                   /\ gd_now' = current_time
                   /\ gd_production' = production
                   /\ gd_log' = gd_log \cup
                        {[type |-> p.type, timestamp |-> p.timestamp,
                          at |-> current_time] :
                            p \in ComposedBatches(production, current_time)}
                   /\ pc' = "build"
       \/ /\ pc' = "crashed"
          /\ UNCHANGED <<clock, n_demands, building, gd_now, gd_production, gd_log>>
    /\ UNCHANGED <<last_optimization, current_solution, tick_sched,
                   tick_event, update_failed, installs, prev_opt, sol_for,
                   seen, seen_for, ticks, dispatched, gd_pending, gd_out,
                   gd_pc, demoVars>>

NextCycles ==
    \/ UpdateData
    \/ Trigger
    \/ HourlyProduction
    \/ HourlyDemandsLogged
    \/ BuildRoute
    \/ InstallScheduled
    \/ SetLast
    \/ EventStep
    \/ Dispatch
    \/ Sleep
    \/ Interrupt

SpecCycles == Init /\ [][NextCycles]_vars

(***************************************************************************)
(* src/demo.py: toggle_optimization, optimization_thread and the display   *)
(* functions of a script run.                                              *)
(***************************************************************************)
\* line 174: st.session_state.running = not st.session_state.running
ToggleWrite ==
    /\ tg_pc = "idle"
    /\ running \/ \E t \in Threads : tpc[t] = "unstarted"
    /\ running' = ~running
    /\ tg_pc' = "written"
    /\ UNCHANGED <<last_update, ss_vehicles, ss_production, ss_events, tpc,
                   lock_owner, t_failed, r_pc, r_obs, d_clock, coordVars, gdVars>>

\* lines 175-176: running is read again, after any thread that ran in
\* between; when it is true a new thread is started
ToggleStart ==
    /\ tg_pc = "written"
    /\ IF running
       THEN LET t == CHOOSE u \in Threads :
                        tpc[u] = "unstarted" /\ \A v \in Threads : tpc[v] = "unstarted" => u <= v
            IN tpc' = [tpc EXCEPT ![t] = "loop"]
       ELSE tpc' = tpc
    /\ tg_pc' = "idle"
    /\ UNCHANGED <<running, last_update, ss_vehicles, ss_production, ss_events,
                   lock_owner, t_failed, r_pc, r_obs, d_clock, coordVars, gdVars>>

\* lines 173-176
toggle_optimization == ToggleWrite \/ ToggleStart

\* line 126: while st.session_state.running
LoopCheckIgnoresFlag(t) ==
    /\ tpc[t] = "loop"
    /\ tpc' = [tpc EXCEPT ![t] = "update"]
    /\ UNCHANGED <<running, last_update, ss_vehicles, ss_production, ss_events,
                   lock_owner, t_failed, tg_pc, r_pc, r_obs, d_clock, coordVars, gdVars>>
LoopCheck(t) ==
    /\ tpc[t] = "loop"
    /\ tpc' = [tpc EXCEPT ![t] = IF running THEN "update" ELSE "done"]
    /\ UNCHANGED <<running, last_update, ss_vehicles, ss_production, ss_events,
                   lock_owner, t_failed, tg_pc, r_pc, r_obs, d_clock, coordVars, gdVars>>

\* line 129: optimizer._update_data(), which catches what preprocess raises
ThreadUpdate(t) ==
    /\ tpc[t] = "update"
    /\ tpc' = [tpc EXCEPT ![t] = "clock"]
    /\ UNCHANGED <<running, last_update, ss_vehicles, ss_production, ss_events,
                   lock_owner, t_failed, tg_pc, r_pc, r_obs, d_clock, coordVars, gdVars>>

\* lines 132-133: current_time = now; if (current_time - last_update).seconds >= 1.
\* Line 165 and the sleep of line 166 are inside this if, so a pass that
\* finds less than a second elapsed goes straight back to the loop test.
CheckElapsed(t) ==
    /\ tpc[t] = "clock"
    /\ tpc' = [tpc EXCEPT ![t] =
                  IF TimedeltaSeconds(d_clock, last_update) >= PublishEverySecs
                  THEN "with" ELSE "loop"]
    /\ UNCHANGED <<running, last_update, ss_vehicles, ss_production, ss_events,
                   lock_owner, t_failed, tg_pc, r_pc, r_obs, d_clock, coordVars, gdVars>>

\* lines 134-163: `with st.session_state.optimizer.data_stream.lock`.
\* DataStream.__init__ assigns no attribute `lock`, so evaluating the
\* expression raises AttributeError before anything is acquired or written,
\* and control passes to the handler of line 168.  Had the attribute
\* existed, the block would write vehicles and production and then raise
\* at line 156, DataStream having no attribute `events` either.
EnterPublish(t) ==
    /\ tpc[t] = "with"
    /\ IF "lock" \in DataStreamAttrs
       THEN /\ lock_owner = Nobody
            /\ ss_vehicles' = t
            /\ ss_production' = t
       ELSE UNCHANGED <<ss_vehicles, ss_production>>
    /\ tpc' = [tpc EXCEPT ![t] = "handler"]
    /\ UNCHANGED <<running, last_update, ss_events, lock_owner, t_failed, tg_pc, r_pc, r_obs,
                   d_clock, coordVars, gdVars>>

\* lines 168-170: except Exception: st.error(...); running = False
Handler(t) ==
    /\ tpc[t] = "handler"
    /\ t_failed' = t_failed \cup {t}
    /\ running' = FALSE
    /\ tpc' = [tpc EXCEPT ![t] = "loop"]
    /\ UNCHANGED <<last_update, ss_vehicles, ss_production, ss_events,
                   lock_owner, tg_pc, r_pc, r_obs, d_clock, coordVars, gdVars>>

\* the value st.session_state.get(key, []) returns for the key a display
\* function reads
FieldValue(f) ==
    CASE f = "map" -> ss_vehicles
      [] f = "vehicles" -> ss_vehicles
      [] f = "production" -> ss_production
      [] f = "events" -> ss_events

\* display_dashboard: update_map, display_production, display_events,
\* display_vehicles, in this order
NextField(f) ==
    CASE f = "idle" -> "map"
      [] f = "map" -> "production"
      [] f = "production" -> "events"
      [] f = "events" -> "vehicles"
      [] f = "vehicles" -> "idle"

\* a script run starts (the autorefresh of line 184 or a user action)
Rerun ==
    /\ r_pc = "idle"
    /\ r_pc' = NextField("idle")
    /\ r_obs' = [f \in Fields |-> Absent]
    /\ UNCHANGED <<running, last_update, ss_vehicles, ss_production, ss_events,
                   tpc, lock_owner, t_failed, tg_pc, d_clock, coordVars, gdVars>>

\* lines 66, 92, 105, 117: one display function reads its key; none of them
\* acquires anything first
Display ==
    /\ r_pc \in Fields
    /\ r_obs' = [r_obs EXCEPT ![r_pc] = FieldValue(r_pc)]
    /\ r_pc' = NextField(r_pc)
    /\ UNCHANGED <<running, last_update, ss_vehicles, ss_production, ss_events,
                   tpc, lock_owner, t_failed, tg_pc, d_clock, coordVars, gdVars>>

\* a second passes
DemoClockTick ==
    /\ d_clock < MaxDemoClock
    /\ d_clock' = d_clock + 1
    /\ UNCHANGED <<running, last_update, ss_vehicles, ss_production, ss_events,
                   tpc, lock_owner, t_failed, tg_pc, r_pc, r_obs, coordVars, gdVars>>

DemoNext ==
    \/ toggle_optimization
    \/ \E t \in Threads : LoopCheck(t)
    \/ \E t \in Threads : ThreadUpdate(t)
    \/ \E t \in Threads : CheckElapsed(t)
    \/ \E t \in Threads : EnterPublish(t)
    \/ \E t \in Threads : Handler(t)
    \/ Rerun
    \/ Display
    \/ DemoClockTick

SpecDemo == Init /\ [][DemoNext]_vars

\* one step of optimization_thread t
ThreadStep(t) ==
    LoopCheck(t) \/ ThreadUpdate(t) \/ CheckElapsed(t) \/ EnterPublish(t) \/ Handler(t)

\* a started thread is scheduled again and again by the interpreter
SpecDemoFair == Init /\ [][DemoNext]_vars /\ \A t \in Threads : WF_vars(ThreadStep(t))

(***************************************************************************)
(* Properties.                                                             *)
(***************************************************************************)
AfterBranches == pc \in {"dispatch", "sleep"}
\* the trigger has just been evaluated and the clock has not moved since
JustTriggered == pc = "hourly" \/ (pc = "event" /\ ~tick_sched)
Elapsed == clock - last_optimization

\* C1, as stated: scheduled and event replanning exclude each other in a
\* tick, so a tick installs at most one Solution and a Solution installed by
\* the scheduled branch is still current at dispatch.
C1_MutuallyExclusive ==
    /\ ~(tick_sched /\ tick_event \in Events)
    /\ installs <= 1
    /\ (pc = "dispatch" /\ tick_sched) => current_solution = ScheduledRoutes(n_demands)

\* C1, amended: the two branches are independent.  Every tick that reaches
\* dispatch has sampled has_event(), whether or not the trigger fired; it
\* has installed one Solution per branch taken, at most two; and the
\* Solution current at dispatch is the event's when an event was sampled,
\* the scheduled one only when the trigger fired and no event was sampled.
C1_BranchesIndependent ==
    /\ installs <= 2
    /\ AfterBranches =>
        /\ tick_event # NotSampled
        /\ installs = (IF tick_sched THEN 1 ELSE 0) + (IF tick_event \in Events THEN 1 ELSE 0)
        /\ tick_event \in Events =>
              current_solution = <<AdjustRoute(tick_event.location)>>
        /\ (tick_sched /\ tick_event = NoEvent) =>
              current_solution = ScheduledRoutes(n_demands)

\* a tick in which the trigger fired and an event was handled too
C1_BothInOneTick ==
    pc = "dispatch" /\ tick_sched /\ tick_event \in Events /\ installs = 2

\* C2: a display function that reads vehicles, production or events holds
\* the lock the publishing thread holds while it writes, and the three
\* values one script run has read come from one publish pass.
C2_ReadersHoldTheLock ==
    /\ r_pc \in Fields => lock_owner = Reader
    /\ r_pc = "idle" =>
          /\ r_obs["production"] = r_obs["vehicles"]
          /\ r_obs["events"] = r_obs["vehicles"]

\* C3: last_optimization never decreases, and a step changes it only when
\* it is the reset of line 149 in a tick whose scheduled trigger fired.
C3_LastOptimizationMonotone ==
    [][/\ last_optimization' >= last_optimization
       /\ last_optimization' # last_optimization => (pc = "set_last" /\ tick_sched)]_vars

\* an event-only tick that follows a scheduled reset
C3_EventOnlyTickAfterReset ==
    /\ pc = "sleep" /\ ~tick_sched /\ tick_event \in Events
    /\ last_optimization > 0

\* C4: _hourly_trigger() is true exactly when at least 3600 seconds have
\* elapsed since last_optimization, however long the gap.
C4_TriggerIffElapsed ==
    JustTriggered => (tick_sched <=> Elapsed >= Threshold)

\* C5: a tick that finds more than 3600 seconds elapsed is a scheduled
\* reoptimization tick; that tick installs the new Solution and resets
\* last_optimization to its own clock reading, at least 3600 seconds after
\* the previous reset.
C5_OneScheduledTickPerCrossing ==
    /\ (JustTriggered /\ Elapsed > Threshold) => tick_sched
    /\ (pc = "event" /\ tick_sched) =>
          /\ last_optimization = clock
          /\ current_solution = ScheduledRoutes(n_demands)
          /\ last_optimization - prev_opt >= Threshold

\* C6: after a tick has handled an event, the current Solution has exactly
\* one route and that route references the event's location, whatever the
\* Solution was before.
C6_EventSolutionIsOneRoute ==
    (AfterBranches /\ tick_event \in Events) =>
        /\ Len(current_solution) = 1
        /\ current_solution[1].kind = "adjust"
        /\ current_solution[1].at = tick_event.location

\* an event handled right after a scheduled reoptimization that installed
\* two routes
C6_EventOverTwoRoutes ==
    /\ pc = "sleep" /\ tick_event \in Events
    /\ tick_sched /\ RouteCount(n_demands) = 2

\* the demands of gd_out that follow the pending orders
SynthesizedOut == SubSeq(gd_out, Len(gd_pending) + 1, Len(gd_out))
AgeOf(p) == gd_now - p.timestamp
IsDemandOf(d, p) ==
    /\ d.type = p.type /\ d.quantity = p.amount /\ d.location = FactoryLocation
    /\ d.time_window = <<gd_now + WindowStartSecs, gd_now + WindowEndSecs>>
Composed(p) == \E j \in DOMAIN SynthesizedOut : IsDemandOf(SynthesizedOut[j], p)

\* C7: a batch gets a demand exactly when it is less than 55 minutes old:
\* 50 minutes old is in, 55 minutes and 60 minutes old are out.
C7_WindowIsStrict ==
    gd_pc = "done" =>
        \A i \in DOMAIN gd_production :
            LET p == gd_production[i] IN
            /\ Composed(p) <=> AgeOf(p) < WindowSecs
            /\ AgeOf(p) = 3000 => Composed(p)
            /\ AgeOf(p) \in {3300, 3600} => ~Composed(p)

\* a batch 50 minutes old and one exactly 55 minutes old, composed together
C7_BoundaryBatches ==
    /\ gd_pc = "done"
    /\ \E i, j \in DOMAIN gd_production :
          AgeOf(gd_production[i]) = 3000 /\ AgeOf(gd_production[j]) = 3300
    /\ Len(SynthesizedOut) = 1

\* the position in the provider's list of the batch a demand was made from
SourceIndex(d) == CHOOSE i \in DOMAIN gd_production : gd_production[i].type = d.type

\* C8: the output starts with the pending orders, unchanged and in provider
\* order; what follows are synthesized demands only, in the order of their
\* batches.
C8_PendingFirst ==
    gd_pc = "done" =>
        /\ Len(gd_out) >= Len(gd_pending)
        /\ SubSeq(gd_out, 1, Len(gd_pending)) = gd_pending
        /\ \A j \in DOMAIN SynthesizedOut :
              \E i \in DOMAIN gd_production : IsDemandOf(SynthesizedOut[j], gd_production[i])
        /\ \A j, k \in DOMAIN SynthesizedOut :
              j < k => SourceIndex(SynthesizedOut[j]) < SourceIndex(SynthesizedOut[k])

\* two different pending orders and two batches, both composed
C8_TwoAndTwo ==
    /\ gd_pc = "done"
    /\ Len(gd_pending) = 2 /\ gd_pending[1] # gd_pending[2]
    /\ Len(SynthesizedOut) = 2

\* C9: the loop is left only by cancellation; an error raised in a step of
\* a tick does not end it.
C9_StopsOnlyOnCancellation ==
    pc \notin Running => pc = "terminated"

\* C10: the slot always holds a complete Solution, all the routes of the
\* install that made it, and so does every value a concurrent reader got.
C10_SolutionAlwaysComplete ==
    /\ current_solution = ExpectedRoutes(sol_for)
    /\ seen = ExpectedRoutes(seen_for)

\* the comprehension is half way through a two-route list while a reader
\* holds the event-made Solution it replaces
C10_ReadDuringBuild ==
    /\ pc = "build" /\ RouteCount(n_demands) = 2 /\ Len(building) = 1
    /\ seen_for.kind = "event" /\ seen = current_solution

Alive(t) == tpc[t] \notin {"unstarted", "done"}

\* C11: whatever the sequence of toggle_optimization calls, at most one
\* optimization_thread is alive at any time.
C11_AtMostOneThreadAlive ==
    Cardinality({t \in Threads : Alive(t)}) <= 1

\* C12: a publish pass that has gone through line 134 has written vehicles,
\* production, events and last_update, all of them inside the critical
\* section, and has released the lock.
C12_PublishWritesAllFields ==
    \A t \in Threads :
        tpc[t] = "handler" =>
            /\ ss_vehicles # Absent /\ ss_production # Absent /\ ss_events # Absent
            /\ last_update >= PublishEverySecs
            /\ lock_owner = Nobody

\* C15: a thread whose handler has reported an error is at its loop test or
\* has terminated: it does not run another pass; and it does not hold the
\* lock.
C15_ErrorStopsTheThread ==
    \A t \in t_failed :
        /\ tpc[t] \in {"loop", "done"}
        /\ lock_owner \in {Nobody, Reader}

\* C16: a thread terminates only at the loop test of line 126, with running
\* cleared and without the lock; and if running is cleared and stays
\* cleared, every started thread is eventually terminated for good.
C16_CancellationBetweenTicks ==
    /\ [][\A t \in Threads :
            (tpc'[t] = "done" /\ tpc[t] # "done") =>
                (tpc[t] = "loop" /\ ~running /\ lock_owner \in {Nobody, Reader})]_vars
    /\ \A t \in Threads :
          (<>[](~running)) => <>[](tpc[t] \in {"unstarted", "done"})

\* a thread that was stopped by a toggle, not by an error, and has terminated
C16_CancelledThreadDone ==
    \E t \in Threads : tpc[t] = "done" /\ t \notin t_failed /\ ~running

\* C13: a refresh that raises is caught inside _update_data: the step
\* leaves current_solution and last_optimization as they were and the tick
\* goes on to its trigger evaluation.
C13_RefreshFailureIsLocal ==
    [][(pc = "update" /\ update_failed') =>
          /\ pc' = "trigger"
          /\ current_solution' = current_solution
          /\ last_optimization' = last_optimization]_vars

\* a tick whose refresh failed has reoptimized and dispatched all the same
C13_DispatchAfterFailedRefresh ==
    pc = "sleep" /\ update_failed /\ tick_sched /\ dispatched > 0

\* C14: a scheduled reoptimization that has ended without installing a
\* Solution leaves the coordinator running, with the previous Solution in
\* place, so that a later tick can retry.
C14_FailedReoptimizationRecoverable ==
    (/\ tick_sched /\ installs = 0 /\ tick_event = NotSampled
     /\ pc \notin {"hourly", "demands", "build", "terminated"}) =>
        /\ pc \in Running
        /\ current_solution = ExpectedRoutes(sol_for)

\* C19: a scheduled install over n demands holds n div 3 + 1 routes and an
\* event install holds one, so the Solution is non-empty from the first
\* install on, and every dispatch after it reports the route count.
C19_InstalledSolutionNonEmpty ==
    /\ sol_for.kind = "scheduled" => Len(current_solution) = (sol_for.n \div 3) + 1
    /\ sol_for.kind = "event" => Len(current_solution) = 1
    /\ sol_for.kind # "init" => current_solution # <<>>
    /\ (pc = "sleep" /\ sol_for.kind # "init") =>
          (dispatched = Len(current_solution) /\ dispatched >= 1)

\* a reoptimization over no demands at all has installed one route and the
\* tick has reported it
C19_OneRouteForNoDemands ==
    /\ pc = "sleep" /\ sol_for.kind = "scheduled" /\ sol_for.n = 0
    /\ dispatched = 1

\* C17: no demand is re-emitted in a later cycle.  A batch stamped no later
\* than the clock of the composition that turned it into a demand is
\* outside the 55-minute window of every later composition, so it is
\* composed in one cycle only; two compositions are at least 3600 seconds
\* apart.
C17_NoReEmission ==
    /\ \A e \in gd_log :
          (e.timestamp <= e.at /\ e.at < gd_now) => ~InWindow(e.timestamp, gd_now)
    /\ \A e1, e2 \in gd_log :
          /\ (/\ e1.type = e2.type /\ e1.timestamp = e2.timestamp
              /\ e1.timestamp <= e1.at /\ e1.at <= e2.at) => e1.at = e2.at
          /\ e1.at < e2.at => e2.at - e1.at >= Threshold
    /\ \A e \in gd_log : e.at < gd_now => gd_now - e.at >= Threshold

\* a later scheduled tick has composed the factory's new batches, and a batch
\* of an earlier cycle, stamped no later than its composition, is older than
\* the window
C17_LaterCycleComposed ==
    /\ pc = "build"
    /\ \E e \in gd_log :
          /\ e.timestamp <= e.at /\ e.at < gd_now
          /\ ~InWindow(e.timestamp, gd_now)
    /\ \E e \in gd_log : e.at = gd_now

============================================================================
